---- MODULE Spec2Model ----
(***************************************************************************)
(* Model of static/app.js: the operator console of the ingestion pipeline. *)
(*                                                                         *)
(* JavaScript runs one handler at a time, so every run of a function up to *)
(* its await (the "call" phase) and every continuation after the await     *)
(* (the "resume" phase) is one atomic action.  A request that has been     *)
(* issued and whose continuation has not run yet is an element of the bag  *)
(* inflight; the backend's answer is chosen when the continuation runs.    *)
(* Once the backend's status has stopped changing (backend.frozen), a      *)
(* status request issued after that is answered with that status; the      *)
(* ones issued before may still be answered with an earlier status.        *)
(*                                                                         *)
(* Strings typed by the user are sequences of one-character strings, so    *)
(* that String.prototype.trim is computed and not assumed.                 *)
(***************************************************************************)
EXTENDS Bags, FiniteSets, Integers, Sequences, TLC

(***************************************************************************)
(* Bounds of the model.                                                    *)
(***************************************************************************)
\* requests that may be outstanding together, where the whole console runs
MaxInFlight == 2
\* requests that may be outstanding together, where one part of it runs
MaxPartInFlight == 3
\* largest value of a counter of the status summary
MaxCount == 2

(***************************************************************************)
(* Values.                                                                 *)
(***************************************************************************)
\* a field that the JSON object does not have (undefined)
Absent == -1
\* the value of a timer handle that has not been set (null)
Null == 0

WhiteSpace == {" "}

\* what the user can have typed into #tocUrl
UrlInputs == {<<>>, <<" ">>, <<" ", "u">>}
\* the same, where the whole console runs
FewUrlInputs == {<<>>, <<" ", "u">>}
\* what the user can have typed into #tableNameInput
NameInputs == {<<>>, <<" ", " ">>, <<"a">>, <<"b", " ">>}
\* the same, where the whole console runs
FewNameInputs == {<<" ">>, <<" ", "a">>}
\* the tables the backend can report as discovered
DiscoveredNames == {<<"a">>}

Buttons == {"discoverBtn", "startBtn", "pauseBtn", "resumeBtn", "retryBtn",
            "resetBtn", "searchTableBtn", "ingestTableBtn"}

FieldVals == {Absent} \cup (0..MaxCount)

Summaries == [total_discovered : FieldVals, completed : FieldVals, pending : FieldVals]

EmptyObject == [total_discovered |-> Absent, completed |-> Absent, pending |-> Absent]

\* the bodies /api/status can answer with; has_summary = FALSE is a body
\* without the summary field
Statuses ==
    {d \in [is_running : BOOLEAN, is_paused : BOOLEAN, has_summary : BOOLEAN,
            summary : Summaries] :
        ~d.has_summary => d.summary = EmptyObject}

\* the status bodies used where the commands are explored: every combination
\* of the two flags with one table pending, and the idle status with none
CommandStatuses ==
    {d \in Statuses :
        /\ d.has_summary
        /\ d.summary.total_discovered = 1
        /\ d.summary.completed = 1 - d.summary.pending
        /\ d.summary.pending \in {0, 1}
        /\ (d.summary.pending = 0) => (~d.is_running /\ ~d.is_paused)}

\* the status bodies used where start, pause and resume are left out: the
\* idle status with nothing pending
IdleStatuses ==
    {d \in CommandStatuses : ~d.is_running /\ ~d.is_paused /\ d.summary.pending = 0}

Outcomes == {"ok", "fail", "throw"}

VARIABLES
    loaded,           \* DOMContentLoaded has fired
    statusInterval,   \* line 1
    logsInterval,     \* line 2
    disabled,         \* the disabled property of every button
    view,             \* status dot, progress bar and counters
    logContainer,     \* what #logContainer shows
    searchResults,    \* the discovered tables #searchResults shows a trigger for
    inflight,         \* bag of the requests awaiting their continuation
    applied,          \* the status body updateUI ran on last
    lastSearch,       \* the table name of the last search request sent
    backend,          \* the status the backend has settled on, if it has
    last              \* the handler that ran last, what it sent and alerted

vars == <<loaded, statusInterval, logsInterval, disabled, view, logContainer, searchResults, inflight, applied, lastSearch, backend, last>>

(***************************************************************************)
(* Pure helpers.                                                           *)
(***************************************************************************)
RECURSIVE TrimStart(_)
TrimStart(s) ==
    IF s # <<>> /\ Head(s) \in WhiteSpace THEN TrimStart(Tail(s)) ELSE s

RECURSIVE TrimEnd(_)
TrimEnd(s) ==
    IF s # <<>> /\ s[Len(s)] \in WhiteSpace
    THEN TrimEnd(SubSeq(s, 1, Len(s) - 1)) ELSE s

\* a trim that is left out
TrimLeftOut(s) == s

\* String.prototype.trim
Trim(s) == TrimEnd(TrimStart(s))

\* v || 0
OrZero(v) == IF v = Absent THEN 0 ELSE v

\* data.summary || {}
SummaryOf(data) == IF data.has_summary THEN data.summary ELSE EmptyObject

\* a request: the endpoint and the one body field that identifies it
Req(ep, body) == [ep |-> ep, body |-> body]

StatusReq == Req("/api/status", <<>>)
LogsReq == Req("/api/logs?limit=50", <<>>)

RECURSIVE SendAll(_, _)
SendAll(bag, reqs) ==
    IF reqs = <<>> THEN bag
    ELSE SendAll(bag (+) SetToBag({Head(reqs)}), Tail(reqs))

Received(bag, r) == bag (-) SetToBag({r})

\* the progress bar's width in percent, as the fraction num / den
\* (line 171: total > 0 ? completed / total * 100 : 0)
Progress(total, completed) ==
    IF total > 0 THEN [num |-> completed * 100, den |-> total]
    ELSE [num |-> 0, den |-> 1]

\* an indicator that tests isRunning alone first
StatusDotRunningFirst(isRunning, isPaused) ==
    IF isRunning THEN "running"
    ELSE IF isPaused THEN "paused"
    ELSE "idle"

\* updateStatusIndicator: the class added to .status-dot
StatusDot(isRunning, isPaused) ==
    IF isRunning /\ ~isPaused THEN "running"
    ELSE IF isPaused THEN "paused"
    ELSE "idle"

\* an updateButtonStates that leaves the resume button as it is
UpdateButtonStatesPauseOnly(d, isRunning, isPaused) ==
    [d EXCEPT !["pauseBtn"] = ~isRunning \/ isPaused]

\* updateButtonStates, as a change of the disabled properties d
UpdateButtonStates(d, isRunning, isPaused) ==
    [d EXCEPT !["pauseBtn"] = ~isRunning \/ isPaused,
              !["resumeBtn"] = ~isPaused]

\* an updateUI that leaves the indicator as it is
UpdateUIViewWithoutIndicator(data) ==
    LET summary == SummaryOf(data)
        total == OrZero(summary.total_discovered)
        completed == OrZero(summary.completed)
    IN  [dot |-> view.dot,
         progress |-> Progress(total, completed),
         totalDiscovered |-> OrZero(summary.total_discovered),
         completedCount |-> OrZero(summary.completed),
         pendingCount |-> OrZero(summary.pending)]

\* updateUI: the new view
UpdateUIView(data) ==
    LET summary == SummaryOf(data)
        total == OrZero(summary.total_discovered)
        completed == OrZero(summary.completed)
    IN  [dot |-> StatusDot(data.is_running, data.is_paused),
         progress |-> Progress(total, completed),
         totalDiscovered |-> OrZero(summary.total_discovered),
         completedCount |-> OrZero(summary.completed),
         pendingCount |-> OrZero(summary.pending)]

\* an updateUI that enables start on pending work alone
UpdateUIButtonsPendingOnly(d, data) ==
    LET hasPending == OrZero(SummaryOf(data).pending) > 0
    IN  [UpdateButtonStates(d, data.is_running, data.is_paused)
            EXCEPT !["startBtn"] = ~hasPending]

\* updateUI: the new disabled properties
UpdateUIButtons(d, data) ==
    LET hasPending == OrZero(SummaryOf(data).pending) > 0
    IN  [UpdateButtonStates(d, data.is_running, data.is_paused)
            EXCEPT !["startBtn"] = data.is_running \/ ~hasPending]

\* the record of the handler that ran: the text it read from its input
\* element, how it ended, the alerts it raised and the requests it issued
RanOn(input, fn, phase, outcome, alerts, sent) ==
    [fn |-> fn, phase |-> phase, input |-> input, outcome |-> outcome,
     alerts |-> alerts, sent |-> sent]

\* the record of a handler that reads no input element
Ran(fn, phase, outcome, alerts, sent) == RanOn(<<>>, fn, phase, outcome, alerts, sent)

\* the bound of a specification: a step may not leave more than cap requests
\* outstanding
Fits(cap) == BagCardinality(inflight') <= cap

(***************************************************************************)
(* Initial state: the page as served, before DOMContentLoaded.  The markup *)
(* is not part of the script; the start, pause and resume buttons may be   *)
(* served enabled or disabled, the other buttons are served enabled.       *)
(***************************************************************************)
NoStatus ==
    [any |-> FALSE,
     data |-> [is_running |-> FALSE, is_paused |-> FALSE, has_summary |-> FALSE,
               summary |-> EmptyObject]]

NoSearch == [any |-> FALSE, name |-> <<>>]

\* the backend's status still changes: a status request is answered with
\* whatever the status is when it is served
Unsettled ==
    [frozen |-> FALSE, status |-> NoStatus.data, staleStatus |-> 0,
     fresh |-> FALSE, settled |-> FALSE]

Init ==
    /\ loaded = FALSE
    /\ statusInterval = Null
    /\ logsInterval = Null
    /\ disabled \in {d \in [Buttons -> BOOLEAN] :
          \A b \in Buttons \ {"startBtn", "pauseBtn", "resumeBtn"} : ~d[b]}
    /\ view = [dot |-> "idle", progress |-> Progress(0, 0), totalDiscovered |-> 0,
               completedCount |-> 0, pendingCount |-> 0]
    /\ logContainer = <<>>
    /\ searchResults = {}
    /\ inflight = EmptyBag
    /\ applied = NoStatus
    /\ lastSearch = NoSearch
    /\ backend = Unsettled
    /\ last = Ran("load", "call", "none", <<>>, <<>>)

(***************************************************************************)
(* Startup and the two timers.                                             *)
(***************************************************************************)
\* a startup that leaves the first fetches to the timers
DOMContentLoadedWithoutFetch ==
    /\ ~loaded
    /\ loaded' = TRUE
    /\ statusInterval' = 1
    /\ logsInterval' = 2
    /\ inflight' = inflight
    /\ last' = Ran("DOMContentLoaded", "call", "sent", <<>>, <<>>)
    /\ UNCHANGED <<backend, disabled, view, logContainer,
                   searchResults, applied, lastSearch>>

\* lines 4-9 with startPolling (230-233), fetchStatus and fetchLogs up to
\* their awaits
DOMContentLoaded ==
    /\ ~loaded
    /\ loaded' = TRUE
    /\ statusInterval' = 1
    /\ logsInterval' = 2
    /\ inflight' = SendAll(inflight, <<StatusReq, LogsReq>>)
    /\ last' = Ran("DOMContentLoaded", "call", "sent", <<>>, <<StatusReq, LogsReq>>)
    /\ UNCHANGED <<backend, disabled, view, logContainer,
                   searchResults, applied, lastSearch>>

\* the 3000 ms timer fires: fetchStatus up to its await
StatusTick ==
    /\ statusInterval # Null
    /\ inflight' = SendAll(inflight, <<StatusReq>>)
    /\ last' = Ran("statusTick", "call", "sent", <<>>, <<StatusReq>>)
    /\ UNCHANGED <<backend, loaded, statusInterval, logsInterval, disabled, view, logContainer, searchResults, applied,
                   lastSearch>>

\* the 5000 ms timer fires: fetchLogs up to its await
LogsTick ==
    /\ logsInterval # Null
    /\ inflight' = SendAll(inflight, <<LogsReq>>)
    /\ last' = Ran("logsTick", "call", "sent", <<>>, <<LogsReq>>)
    /\ UNCHANGED <<backend, loaded, statusInterval, logsInterval, disabled, view, logContainer, searchResults, applied,
                   lastSearch>>

\* a fetchStatus whose updateUI leaves the buttons as they are
FetchStatusOkButtonsKept(data) ==
    /\ BagIn(StatusReq, inflight)
    /\ inflight' = Received(inflight, StatusReq)
    /\ view' = UpdateUIView(data)
    /\ applied' = [any |-> TRUE, data |-> data]
    /\ last' = Ran("fetchStatus", "resume", "ok", <<>>, <<>>)
    /\ UNCHANGED <<loaded, statusInterval, logsInterval, disabled, logContainer, searchResults,
                   lastSearch>>

\* fetchStatus after its await, the answer parsed: updateUI on the body
FetchStatusOk(data) ==
    /\ BagIn(StatusReq, inflight)
    /\ inflight' = Received(inflight, StatusReq)
    /\ view' = UpdateUIView(data)
    /\ disabled' = UpdateUIButtons(disabled, data)
    /\ applied' = [any |-> TRUE, data |-> data]
    /\ last' = Ran("fetchStatus", "resume", "ok", <<>>, <<>>)
    /\ UNCHANGED <<loaded, statusInterval, logsInterval, logContainer, searchResults, lastSearch>>

\* fetchStatus after its await: updateUI on the body, or the catch
FetchStatusResume(bodies) ==
    /\ \/ \E data \in bodies : FetchStatusOk(data)
       \/ /\ BagIn(StatusReq, inflight)
          /\ inflight' = Received(inflight, StatusReq)
          /\ last' = Ran("fetchStatus", "resume", "throw", <<>>, <<>>)
          /\ UNCHANGED <<view, disabled, applied, loaded, statusInterval, logsInterval,
                         logContainer, searchResults, lastSearch>>
    /\ UNCHANGED backend

\* the requests in flight that are neither a status nor a logs fetch
CommandsInFlight ==
    BagCardinality(inflight) - CopiesIn(StatusReq, inflight) - CopiesIn(LogsReq, inflight)

\* the backend's status stops changing: the status requests in flight now
\* were issued before, they are stale
BackendSettles(status) ==
    /\ ~backend.frozen
    /\ backend' = [frozen |-> TRUE, status |-> status,
                   staleStatus |-> CopiesIn(StatusReq, inflight),
                   fresh |-> FALSE, settled |-> FALSE]
    /\ last' = Ran("backend", "call", "none", <<>>, <<>>)
    /\ UNCHANGED <<loaded, statusInterval, logsInterval, disabled, view, logContainer,
                   searchResults, inflight, applied, lastSearch>>

\* fetchStatus after its await, the request issued before the backend
\* settled: the answer is the status of when it was served
StaleStatusResume(bodies) ==
    /\ backend.frozen
    /\ backend.staleStatus > 0
    /\ \E data \in bodies : FetchStatusOk(data)
    /\ backend' = [backend EXCEPT !.staleStatus = @ - 1]

\* fetchStatus after its await, the request issued after the backend
\* settled: the answer is the settled status
FreshStatusResume ==
    /\ backend.frozen
    /\ CopiesIn(StatusReq, inflight) > backend.staleStatus
    /\ FetchStatusOk(backend.status)
    /\ backend' = [backend EXCEPT
                      !.fresh = TRUE,
                      !.settled = @ \/ (backend.staleStatus = 0 /\ CommandsInFlight = 0)]

\* the bodies /api/logs can answer with; has_logs = FALSE is a body without logs
LogBodies ==
    {[has_logs |-> FALSE, logs |-> <<>>], [has_logs |-> TRUE, logs |-> <<>>],
     [has_logs |-> TRUE, logs |-> <<"m1">>], [has_logs |-> TRUE, logs |-> <<"m2", "m1">>]}

\* the same, where the commands are explored: the log stays empty
EmptyLogBodies == {body \in LogBodies : body.logs = <<>>}

\* updateLogs: the entries shown; none is the placeholder
UpdateLogs(body) == IF ~body.has_logs \/ Len(body.logs) = 0 THEN <<>> ELSE body.logs

\* fetchLogs whose catch clears the list
FetchLogsResumeClearing(bodies) ==
    /\ BagIn(LogsReq, inflight)
    /\ inflight' = Received(inflight, LogsReq)
    /\ \/ \E body \in bodies :
            /\ logContainer' = UpdateLogs(body)
            /\ last' = Ran("fetchLogs", "resume", "ok", <<>>, <<>>)
       \/ /\ last' = Ran("fetchLogs", "resume", "throw", <<>>, <<>>)
          /\ logContainer' = <<>>
    /\ UNCHANGED <<backend, loaded, statusInterval, logsInterval, disabled, view, searchResults, applied, lastSearch>>

\* fetchLogs after its await
FetchLogsResume(bodies) ==
    /\ BagIn(LogsReq, inflight)
    /\ inflight' = Received(inflight, LogsReq)
    /\ \/ \E body \in bodies :
            /\ logContainer' = UpdateLogs(body)
            /\ last' = Ran("fetchLogs", "resume", "ok", <<>>, <<>>)
       \/ /\ last' = Ran("fetchLogs", "resume", "throw", <<>>, <<>>)
          /\ UNCHANGED logContainer
    /\ UNCHANGED <<backend, loaded, statusInterval, logsInterval, disabled, view, searchResults, applied, lastSearch>>

(***************************************************************************)
(* Commands.  A click reaches its listener only while the button is not    *)
(* disabled.                                                               *)
(***************************************************************************)
DiscoverReq(url) == Req("/api/discover", url)
StartReq == Req("/api/start", <<>>)
PauseReq == Req("/api/pause", <<>>)
ResumeReq == Req("/api/resume", <<>>)
RetryReq == Req("/api/retry-failed", <<>>)
ResetReq == Req("/api/reset", <<>>)
SearchReq(name) == Req("/api/search-table", name)
IngestSingleReq(name) == Req("/api/ingest-single", name)
IngestByNameReq(name) == Req("/api/ingest-by-name", name)

\* the alert of a continuation that did not succeed: the else branch shows
\* the backend's error, the catch shows the exception
FailureAlert(outcome) == IF outcome = "fail" THEN <<"error">> ELSE <<"exception">>

\* discoverTables up to its await (lines 30-46); tocUrl is the value of
\* #tocUrl at the click
DiscoverTables(tocUrl) ==
    /\ loaded
    /\ ~disabled["discoverBtn"]
    /\ LET url == Trim(tocUrl) IN
         IF url = <<>>
         THEN /\ last' = RanOn(tocUrl, "discoverTables", "call", "rejected",
                                <<"validation">>, <<>>)
              /\ UNCHANGED <<disabled, inflight>>
         ELSE /\ disabled' = [disabled EXCEPT !["discoverBtn"] = TRUE]
              /\ inflight' = SendAll(inflight, <<DiscoverReq(url)>>)
              /\ last' = RanOn(tocUrl, "discoverTables", "call", "sent", <<>>,
                                <<DiscoverReq(url)>>)
    /\ UNCHANGED <<backend, loaded, statusInterval, logsInterval, view, logContainer, searchResults, applied, lastSearch>>

\* discoverTables after its await (lines 47-61)
DiscoverTablesResume(outcome) ==
    \E r \in BagToSet(inflight) :
        /\ r.ep = "/api/discover"
        /\ LET sent == IF outcome = "ok" THEN <<StatusReq, LogsReq>> ELSE <<>>
               alerts == IF outcome = "ok" THEN <<"message">> ELSE FailureAlert(outcome)
           IN  /\ inflight' = SendAll(Received(inflight, r), sent)
               /\ last' = Ran("discoverTables", "resume", outcome, alerts, sent)
        /\ disabled' = [disabled EXCEPT !["discoverBtn"] = FALSE]
        /\ UNCHANGED <<backend, loaded, statusInterval, logsInterval, view, logContainer, searchResults, applied, lastSearch>>

\* startIngestion up to its await (lines 64-69)
StartIngestion ==
    /\ loaded
    /\ ~disabled["startBtn"]
    /\ disabled' = [disabled EXCEPT !["startBtn"] = TRUE]
    /\ inflight' = SendAll(inflight, <<StartReq>>)
    /\ last' = Ran("startIngestion", "call", "sent", <<>>, <<StartReq>>)
    /\ UNCHANGED <<backend, loaded, statusInterval, logsInterval, view, logContainer, searchResults, applied, lastSearch>>

\* a startIngestion that does not enable the button again after a failure
StartButtonsNotRestored(d, outcome) ==
    IF outcome = "ok" THEN UpdateButtonStates(d, TRUE, FALSE) ELSE d

\* startIngestion after its await: the disabled properties (lines 72-81)
StartButtons(d, outcome) ==
    IF outcome = "ok" THEN UpdateButtonStates(d, TRUE, FALSE)
    ELSE [d EXCEPT !["startBtn"] = FALSE]

\* a startIngestion that sends the request again when the transport failed
StartIngestionResumeRetrying(outcome) ==
    /\ BagIn(StartReq, inflight)
    /\ inflight' = IF outcome = "throw" THEN inflight ELSE Received(inflight, StartReq)
    /\ disabled' = IF outcome = "throw" THEN disabled ELSE StartButtons(disabled, outcome)
    /\ last' = Ran("startIngestion", "resume", outcome,
                   IF outcome = "fail" THEN FailureAlert(outcome) ELSE <<>>,
                   IF outcome = "throw" THEN <<StartReq>> ELSE <<>>)
    /\ UNCHANGED <<backend, loaded, statusInterval, logsInterval, view, logContainer, searchResults, applied, lastSearch>>

\* startIngestion after its await (lines 70-81)
StartIngestionResume(outcome) ==
    /\ BagIn(StartReq, inflight)
    /\ inflight' = Received(inflight, StartReq)
    /\ disabled' = StartButtons(disabled, outcome)
    /\ last' = Ran("startIngestion", "resume", outcome,
                   IF outcome = "ok" THEN <<>> ELSE FailureAlert(outcome), <<>>)
    /\ UNCHANGED <<backend, loaded, statusInterval, logsInterval, view, logContainer, searchResults, applied, lastSearch>>

\* pauseIngestion up to its await (lines 84-86)
PauseIngestion ==
    /\ loaded
    /\ ~disabled["pauseBtn"]
    /\ inflight' = SendAll(inflight, <<PauseReq>>)
    /\ last' = Ran("pauseIngestion", "call", "sent", <<>>, <<PauseReq>>)
    /\ UNCHANGED <<backend, loaded, statusInterval, logsInterval, disabled, view, logContainer, searchResults, applied,
                   lastSearch>>

\* a pauseIngestion that updates the buttons without testing data.success
PauseButtonsUntested(d, outcome) == UpdateButtonStates(d, FALSE, TRUE)

\* pauseIngestion after its await: the disabled properties (lines 89-91)
PauseButtons(d, outcome) ==
    IF outcome = "ok" THEN UpdateButtonStates(d, FALSE, TRUE) ELSE d

\* pauseIngestion after its await (lines 87-94)
PauseIngestionResume(outcome) ==
    /\ BagIn(PauseReq, inflight)
    /\ inflight' = Received(inflight, PauseReq)
    /\ disabled' = PauseButtons(disabled, outcome)
    /\ last' = Ran("pauseIngestion", "resume", outcome,
                   IF outcome = "throw" THEN <<"exception">> ELSE <<>>, <<>>)
    /\ UNCHANGED <<backend, loaded, statusInterval, logsInterval, view, logContainer, searchResults, applied, lastSearch>>

\* resumeIngestion up to its await (lines 97-99)
ResumeIngestion ==
    /\ loaded
    /\ ~disabled["resumeBtn"]
    /\ inflight' = SendAll(inflight, <<ResumeReq>>)
    /\ last' = Ran("resumeIngestion", "call", "sent", <<>>, <<ResumeReq>>)
    /\ UNCHANGED <<backend, loaded, statusInterval, logsInterval, disabled, view, logContainer, searchResults, applied,
                   lastSearch>>

\* a resumeIngestion that passes the arguments of pauseIngestion
ResumeButtonsAsPause(d, outcome) ==
    IF outcome = "ok" THEN UpdateButtonStates(d, FALSE, TRUE) ELSE d

\* resumeIngestion after its await: the disabled properties (lines 102-104)
ResumeButtons(d, outcome) ==
    IF outcome = "ok" THEN UpdateButtonStates(d, TRUE, FALSE) ELSE d

\* resumeIngestion after its await (lines 100-107)
ResumeIngestionResume(outcome) ==
    /\ BagIn(ResumeReq, inflight)
    /\ inflight' = Received(inflight, ResumeReq)
    /\ disabled' = ResumeButtons(disabled, outcome)
    /\ last' = Ran("resumeIngestion", "resume", outcome,
                   IF outcome = "throw" THEN <<"exception">> ELSE <<>>, <<>>)
    /\ UNCHANGED <<backend, loaded, statusInterval, logsInterval, view, logContainer, searchResults, applied, lastSearch>>

\* retryFailed up to its await (lines 110-112)
RetryFailed ==
    /\ loaded
    /\ ~disabled["retryBtn"]
    /\ inflight' = SendAll(inflight, <<RetryReq>>)
    /\ last' = Ran("retryFailed", "call", "sent", <<>>, <<RetryReq>>)
    /\ UNCHANGED <<backend, loaded, statusInterval, logsInterval, disabled, view, logContainer, searchResults, applied,
                   lastSearch>>

\* retryFailed after its await (lines 113-118): the body is not tested for
\* success, every body that parses is alerted and followed by fetchStatus
RetryFailedResume(outcome) ==
    /\ BagIn(RetryReq, inflight)
    /\ LET sent == IF outcome = "throw" THEN <<>> ELSE <<StatusReq>>
           alerts == IF outcome = "throw" THEN <<"exception">> ELSE <<"message">>
       IN  /\ inflight' = SendAll(Received(inflight, RetryReq), sent)
           /\ last' = Ran("retryFailed", "resume", outcome, alerts, sent)
    /\ UNCHANGED <<backend, loaded, statusInterval, logsInterval, disabled, view, logContainer, searchResults, applied,
                   lastSearch>>

\* a resetAll that does not test the answer of confirm
ResetSentUnconfirmed(confirmed) == <<ResetReq>>

\* resetAll up to its await: what is sent (lines 122-127)
ResetSent(confirmed) == IF confirmed THEN <<ResetReq>> ELSE <<>>

\* resetAll up to its await (lines 121-127)
ResetAll(confirmed) ==
    /\ loaded
    /\ ~disabled["resetBtn"]
    /\ inflight' = SendAll(inflight, ResetSent(confirmed))
    /\ last' = Ran("resetAll", "call", IF confirmed THEN "sent" ELSE "declined",
                   <<>>, ResetSent(confirmed))
    /\ UNCHANGED <<backend, loaded, statusInterval, logsInterval, disabled, view, logContainer, searchResults, applied,
                   lastSearch>>

\* resetAll after its await (lines 128-134)
ResetAllResume(outcome) ==
    /\ BagIn(ResetReq, inflight)
    /\ LET sent == IF outcome = "throw" THEN <<>> ELSE <<StatusReq, LogsReq>>
           alerts == IF outcome = "throw" THEN <<"exception">> ELSE <<"message">>
       IN  /\ inflight' = SendAll(Received(inflight, ResetReq), sent)
           /\ last' = Ran("resetAll", "resume", outcome, alerts, sent)
    /\ UNCHANGED <<backend, loaded, statusInterval, logsInterval, disabled, view, logContainer, searchResults, applied,
                   lastSearch>>

(***************************************************************************)
(* Table workflow.                                                         *)
(***************************************************************************)
\* searchTable up to its await, as its callers see it (lines 235-251):
\* what it sends, what it alerts, the disabled properties, the last search
SearchSent(input) ==
    IF Trim(input) = <<>> THEN <<>> ELSE <<SearchReq(Trim(input))>>

SearchAlerts(input) ==
    IF Trim(input) = <<>> THEN <<"validation">> ELSE <<>>

SearchButtons(d, input) ==
    IF Trim(input) = <<>> THEN d ELSE [d EXCEPT !["searchTableBtn"] = TRUE]

SearchNoted(ls, input) ==
    IF Trim(input) = <<>> THEN ls ELSE [any |-> TRUE, name |-> Trim(input)]

\* searchTable called by a listener: the click on #searchTableBtn (line 18)
\* or the Enter key in #tableNameInput (lines 20-22), which no disabled
\* property stops; tableNameInput is the value of #tableNameInput then
SearchTable(byKey, tableNameInput) ==
    /\ loaded
    /\ byKey \/ ~disabled["searchTableBtn"]
    /\ disabled' = SearchButtons(disabled, tableNameInput)
    /\ inflight' = SendAll(inflight, SearchSent(tableNameInput))
    /\ lastSearch' = SearchNoted(lastSearch, tableNameInput)
    /\ last' = RanOn(tableNameInput,
                     IF byKey THEN "searchTable:keypress" ELSE "searchTable:click", "call",
                     IF Trim(tableNameInput) = <<>> THEN "rejected" ELSE "sent",
                     SearchAlerts(tableNameInput), SearchSent(tableNameInput))
    /\ UNCHANGED <<backend, loaded, statusInterval, logsInterval, view, logContainer, searchResults, applied>>

\* displaySearchResults: the discovered tables that get an Ingest trigger
DisplaySearchResults(discovered) == discovered

\* searchTable after its await (lines 252-264)
SearchTableResume(outcome) ==
    \E r \in BagToSet(inflight) :
        /\ r.ep = "/api/search-table"
        /\ inflight' = Received(inflight, r)
        /\ IF outcome = "ok"
           THEN \E discovered \in SUBSET DiscoveredNames :
                    searchResults' = DisplaySearchResults(discovered)
           ELSE UNCHANGED searchResults
        /\ disabled' = [disabled EXCEPT !["searchTableBtn"] = FALSE]
        /\ last' = Ran("searchTable", "resume", outcome,
                       IF outcome = "ok" THEN <<>> ELSE FailureAlert(outcome), <<>>)
        /\ UNCHANGED <<backend, loaded, statusInterval, logsInterval, view, logContainer, applied, lastSearch>>

\* ingestSingleTable up to its await: what is sent (lines 305-312)
IngestSingleSent(name, confirmed) ==
    IF confirmed THEN <<IngestSingleReq(name)>> ELSE <<>>

\* ingestSingleTable up to its await (lines 304-312), called by the trigger
\* that displaySearchResults rendered for the table (line 295)
IngestSingleTable(name, confirmed) ==
    /\ loaded
    /\ name \in searchResults
    /\ inflight' = SendAll(inflight, IngestSingleSent(name, confirmed))
    /\ last' = Ran("ingestSingleTable", "call", IF confirmed THEN "sent" ELSE "declined",
                   <<>>, IngestSingleSent(name, confirmed))
    /\ UNCHANGED <<backend, loaded, statusInterval, logsInterval, disabled, view, logContainer, searchResults, applied,
                   lastSearch>>

\* ingestSingleTable after its await (lines 313-325); on success it calls
\* fetchStatus, fetchLogs and searchTable, each up to its await;
\* tableNameInput is the value of #tableNameInput when searchTable reads it
IngestSingleTableResume(outcome, tableNameInput) ==
    \E r \in BagToSet(inflight) :
        /\ r.ep = "/api/ingest-single"
        /\ LET sent == IF outcome = "ok"
                       THEN <<StatusReq, LogsReq>> \o SearchSent(tableNameInput)
                       ELSE <<>>
               alerts == IF outcome = "ok"
                         THEN <<"message">> \o SearchAlerts(tableNameInput)
                         ELSE FailureAlert(outcome)
           IN  /\ inflight' = SendAll(Received(inflight, r), sent)
               /\ last' = RanOn(IF outcome = "ok" THEN tableNameInput ELSE <<>>,
                                "ingestSingleTable", "resume", outcome, alerts, sent)
        /\ disabled' = IF outcome = "ok" THEN SearchButtons(disabled, tableNameInput)
                       ELSE disabled
        /\ lastSearch' = IF outcome = "ok" THEN SearchNoted(lastSearch, tableNameInput)
                         ELSE lastSearch
        /\ UNCHANGED <<backend, loaded, statusInterval, logsInterval, view, logContainer, searchResults, applied>>

\* ingestTableByName up to its await (lines 328-344); tableNameInput is the
\* value of #tableNameInput at the click
IngestTableByName(tableNameInput) ==
    /\ loaded
    /\ ~disabled["ingestTableBtn"]
    /\ LET name == Trim(tableNameInput) IN
         IF name = <<>>
         THEN /\ last' = RanOn(tableNameInput, "ingestTableByName", "call", "rejected",
                                <<"validation">>, <<>>)
              /\ UNCHANGED <<disabled, inflight>>
         ELSE /\ disabled' = [disabled EXCEPT !["ingestTableBtn"] = TRUE]
              /\ inflight' = SendAll(inflight, <<IngestByNameReq(name)>>)
              /\ last' = RanOn(tableNameInput, "ingestTableByName", "call", "sent",
                                <<>>, <<IngestByNameReq(name)>>)
    /\ UNCHANGED <<backend, loaded, statusInterval, logsInterval, view, logContainer, searchResults, applied, lastSearch>>

\* ingestTableByName after its await (lines 345-359)
IngestTableByNameResume(outcome) ==
    \E r \in BagToSet(inflight) :
        /\ r.ep = "/api/ingest-by-name"
        /\ LET sent == IF outcome = "ok" THEN <<StatusReq, LogsReq>> ELSE <<>>
               alerts == IF outcome = "ok" THEN <<"message">> ELSE FailureAlert(outcome)
           IN  /\ inflight' = SendAll(Received(inflight, r), sent)
               /\ last' = Ran("ingestTableByName", "resume", outcome, alerts, sent)
        /\ disabled' = [disabled EXCEPT !["ingestTableBtn"] = FALSE]
        /\ UNCHANGED <<backend, loaded, statusInterval, logsInterval, view, logContainer, searchResults, applied, lastSearch>>

(***************************************************************************)
(* Specifications.  The value of a text input is read when a handler runs; *)
(* the user may have typed anything before, so it is an input of the       *)
(* action.                                                                 *)
(***************************************************************************)
Polling(statusBodies, logBodies, cap) ==
    \/ DOMContentLoaded /\ Fits(cap)
    \/ StatusTick /\ Fits(cap)
    \/ LogsTick /\ Fits(cap)
    \/ FetchStatusResume(statusBodies)
    \/ FetchLogsResume(logBodies)

Control(cap) ==
    \/ StartIngestion /\ Fits(cap)
    \/ \E outcome \in Outcomes : StartIngestionResume(outcome)
    \/ PauseIngestion /\ Fits(cap)
    \/ \E outcome \in Outcomes : PauseIngestionResume(outcome)
    \/ ResumeIngestion /\ Fits(cap)
    \/ \E outcome \in Outcomes : ResumeIngestionResume(outcome)

Maintenance(urls, names, cap) ==
    \/ \E tocUrl \in urls : DiscoverTables(tocUrl) /\ Fits(cap)
    \/ \E outcome \in Outcomes : DiscoverTablesResume(outcome) /\ Fits(cap)
    \/ RetryFailed /\ Fits(cap)
    \/ \E outcome \in Outcomes : RetryFailedResume(outcome) /\ Fits(cap)
    \/ \E confirmed \in BOOLEAN : ResetAll(confirmed) /\ Fits(cap)
    \/ \E outcome \in Outcomes : ResetAllResume(outcome) /\ Fits(cap)
    \/ \E tableNameInput \in names : IngestTableByName(tableNameInput) /\ Fits(cap)
    \/ \E outcome \in Outcomes : IngestTableByNameResume(outcome) /\ Fits(cap)

TableWorkflow(names, cap) ==
    \/ \E byKey \in BOOLEAN, tableNameInput \in names :
          SearchTable(byKey, tableNameInput) /\ Fits(cap)
    \/ \E outcome \in Outcomes : SearchTableResume(outcome)
    \/ \E name \in DiscoveredNames, confirmed \in BOOLEAN :
          IngestSingleTable(name, confirmed) /\ Fits(cap)
    \/ \E outcome \in Outcomes, tableNameInput \in names :
          IngestSingleTableResume(outcome, tableNameInput) /\ Fits(cap)

\* the whole console
Next ==
    \/ Polling(CommandStatuses, EmptyLogBodies, MaxInFlight)
    \/ Control(MaxInFlight)
    \/ Maintenance(FewUrlInputs, FewNameInputs, MaxInFlight)
    \/ TableWorkflow(FewNameInputs, MaxInFlight)

Spec == Init /\ [][Next]_vars

\* the status view alone, with every status body
NextView == Polling(Statuses, EmptyLogBodies, MaxInFlight)

SpecView == Init /\ [][NextView]_vars

\* the table workflow with polling, with every table name
NextTable ==
    \/ Polling(CommandStatuses, EmptyLogBodies, MaxPartInFlight)
    \/ TableWorkflow(NameInputs, MaxPartInFlight)

SpecTable == Init /\ [][NextTable]_vars

\* every command but start, pause and resume, with every URL and table name
NextForms ==
    \/ Polling(IdleStatuses, EmptyLogBodies, MaxInFlight)
    \/ Maintenance(UrlInputs, NameInputs, MaxInFlight)
    \/ TableWorkflow(NameInputs, MaxInFlight)

SpecForms == Init /\ [][NextForms]_vars

\* start, pause and resume with polling, until the backend's status stops
\* changing; from then on no command is sent and every status fetch succeeds
NextSettling ==
    \/ DOMContentLoaded /\ Fits(MaxPartInFlight)
    \/ StatusTick /\ Fits(MaxPartInFlight)
    \/ LogsTick /\ Fits(MaxPartInFlight)
    \/ ~backend.frozen /\ FetchStatusResume(CommandStatuses)
    \/ FetchLogsResume(EmptyLogBodies)
    \/ \E status \in CommandStatuses : BackendSettles(status)
    \/ StaleStatusResume(CommandStatuses)
    \/ FreshStatusResume
    \/ ~backend.frozen /\ StartIngestion /\ Fits(MaxPartInFlight)
    \/ \E outcome \in Outcomes : StartIngestionResume(outcome)
    \/ ~backend.frozen /\ PauseIngestion /\ Fits(MaxPartInFlight)
    \/ \E outcome \in Outcomes : PauseIngestionResume(outcome)
    \/ ~backend.frozen /\ ResumeIngestion /\ Fits(MaxPartInFlight)
    \/ \E outcome \in Outcomes : ResumeIngestionResume(outcome)

SpecSettling == Init /\ [][NextSettling]_vars

\* polling with every log body, and the commands that force a refresh
NextLogs ==
    \/ Polling(CommandStatuses, LogBodies, MaxInFlight)
    \/ Maintenance(FewUrlInputs, FewNameInputs, MaxInFlight)

SpecLogs == Init /\ [][NextLogs]_vars

(***************************************************************************)
(* Vocabulary of the properties.                                           *)
(***************************************************************************)
\* the number of outstanding requests to an endpoint, whatever their bodies
InFlightTo(ep) ==
    BagCardinality([r \in {x \in BagToSet(inflight) : x.ep = ep} |-> inflight[r]])

\* the endpoint of every command
CommandEndpoints ==
    {"/api/discover", "/api/start", "/api/pause", "/api/resume", "/api/retry-failed",
     "/api/reset", "/api/ingest-single", "/api/ingest-by-name"}

\* the handler that ran last was the continuation of fn and ended in outcome
Resumed(fn, outcome) ==
    last.fn = fn /\ last.phase = "resume" /\ last.outcome = outcome

\* the same of the handler a step runs
ResumedNext(fn, outcome) ==
    last'.fn = fn /\ last'.phase = "resume" /\ last'.outcome = outcome

Failures == {"fail", "throw"}

(***************************************************************************)
(* C1.  Single flight of every command.                                    *)
(***************************************************************************)
\* C1 (as claimed): in every reachable state at most one request of each
\* command (discover, start, pause, resume, retry-failed, reset,
\* ingest-single, ingest-by-name) is in flight.
C1_AtMostOneInFlightPerCommand ==
    \A ep \in CommandEndpoints : InFlightTo(ep) <= 1

(***************************************************************************)
(* C2.  A failed command and its own control.                              *)
(***************************************************************************)
\* the button a command is triggered by; ingestSingleTable is triggered by a
\* rendered trigger that has no disabled property
ControlOf ==
    [fn \in {"discoverTables", "startIngestion", "pauseIngestion", "resumeIngestion",
             "retryFailed", "resetAll", "ingestTableByName"} |->
        CASE fn = "discoverTables" -> "discoverBtn"
          [] fn = "startIngestion" -> "startBtn"
          [] fn = "pauseIngestion" -> "pauseBtn"
          [] fn = "resumeIngestion" -> "resumeBtn"
          [] fn = "retryFailed" -> "retryBtn"
          [] fn = "resetAll" -> "resetBtn"
          [] fn = "ingestTableByName" -> "ingestTableBtn"]

C3_RefusalKeepsPauseAndResume ==
    [][\A fn \in {"startIngestion", "pauseIngestion", "resumeIngestion",
                  "discoverTables", "ingestSingleTable", "ingestTableByName"} :
          ResumedNext(fn, "fail") =>
              /\ disabled'["pauseBtn"] = disabled["pauseBtn"]
              /\ disabled'["resumeBtn"] = disabled["resumeBtn"]]_vars

\* a pause that the backend refused has been handled while pause was enabled
\* and resume disabled
C3_Witness ==
    /\ Resumed("pauseIngestion", "fail")
    /\ ~disabled["pauseBtn"]
    /\ disabled["resumeBtn"]

(***************************************************************************)
(* C4.  The optimistic update of start, pause and resume.                  *)
(***************************************************************************)
\* C4: once the continuation of a start or of a resume has handled
\* success:true, pause is enabled and resume disabled; once the continuation
\* of a pause has handled success:true, pause is disabled and resume enabled.
C4_OptimisticUpdate ==
    /\ (Resumed("startIngestion", "ok") \/ Resumed("resumeIngestion", "ok"))
          => (~disabled["pauseBtn"] /\ disabled["resumeBtn"])
    /\ Resumed("pauseIngestion", "ok")
          => (disabled["pauseBtn"] /\ ~disabled["resumeBtn"])

\* a pause has succeeded while the status applied last still says running and
\* not paused, and no status request is outstanding
C4_Witness ==
    /\ Resumed("pauseIngestion", "ok")
    /\ applied.any /\ applied.data.is_running /\ ~applied.data.is_paused
    /\ InFlightTo("/api/status") = 0
    /\ disabled["pauseBtn"] /\ ~disabled["resumeBtn"]

(***************************************************************************)
(* C5, C6, C7.  What a status response leaves on the screen.               *)
(***************************************************************************)
\* C5: right after a status response has been applied, the indicator is
\* running iff is_running and not is_paused, paused iff is_paused and it is
\* not running, idle otherwise; pause is enabled iff is_running and not
\* is_paused; resume is enabled iff is_paused.
C5_StatusReconciled ==
    Resumed("fetchStatus", "ok") =>
        LET r == applied.data.is_running
            p == applied.data.is_paused
        IN  /\ (view.dot = "running") <=> (r /\ ~p)
            /\ (view.dot = "paused") <=> p
            /\ (view.dot = "idle") <=> (~r /\ ~p)
            /\ (~disabled["pauseBtn"]) <=> (r /\ ~p)
            /\ (~disabled["resumeBtn"]) <=> p

\* a status with is_running false and is_paused true has been applied
C5_Witness ==
    /\ Resumed("fetchStatus", "ok")
    /\ ~applied.data.is_running /\ applied.data.is_paused
    /\ view.dot = "paused"
    /\ ~disabled["resumeBtn"] /\ disabled["pauseBtn"]

\* summary.pending of a status body, 0 when the summary or the field is absent
PendingOf(data) ==
    IF data.has_summary /\ data.summary.pending # Absent THEN data.summary.pending ELSE 0

\* C6: right after a status response has been applied, start is enabled iff
\* is_running is false and summary.pending > 0, an absent summary or an absent
\* pending counting as 0.
C6_StartEnabledIffIdleAndPending ==
    Resumed("fetchStatus", "ok") =>
        ((~disabled["startBtn"]) <=>
            (~applied.data.is_running /\ PendingOf(applied.data) > 0))

\* a status without summary has been applied while nothing runs: start is
\* disabled
C6_Witness ==
    /\ Resumed("fetchStatus", "ok")
    /\ ~applied.data.has_summary
    /\ ~applied.data.is_running
    /\ disabled["startBtn"]

\* C7 (as claimed): for every status whose summary has non-negative
\* total_discovered and completed, the progress shown when it is applied is
\* within [0, 100], and is 0 when total_discovered is 0.
C7_ProgressWithinRange ==
    (/\ Resumed("fetchStatus", "ok")
     /\ applied.data.has_summary
     /\ applied.data.summary.total_discovered >= 0
     /\ applied.data.summary.completed >= 0)
    => /\ view.progress.num >= 0
       /\ view.progress.num <= 100 * view.progress.den
       /\ (applied.data.summary.total_discovered = 0) => (view.progress.num = 0)

(***************************************************************************)
(* C8.  Declining a confirmation.                                          *)
(***************************************************************************)
\* C8: a reset or an ingest-single whose confirmation is declined issues no
\* request and raises no alert, and changes neither the outstanding requests
\* nor anything displayed.
C8_DeclineDoesNothing ==
    [][(last'.outcome = "declined") =>
          /\ last'.fn \in {"resetAll", "ingestSingleTable"}
          /\ last'.sent = <<>>
          /\ last'.alerts = <<>>
          /\ UNCHANGED <<inflight, disabled, view, logContainer, searchResults,
                         statusInterval, logsInterval>>]_vars

\* the confirmation of an ingest-single has been declined while another
\* request was outstanding
C8_Witness ==
    /\ last.fn = "ingestSingleTable"
    /\ last.outcome = "declined"
    /\ inflight # EmptyBag

(***************************************************************************)
(* C9.  Blank input.                                                       *)
(***************************************************************************)
\* empty, or white space only
IsBlank(s) == \A i \in 1..Len(s) : s[i] \in WhiteSpace

\* C9: discover triggered with a blank URL, and search or ingest-by-name
\* triggered with a blank table name, issue no request, raise the validation
\* alert and leave every disabled property as it was.
C9_BlankInputRejected ==
    [][(/\ last'.phase = "call"
        /\ last'.fn \in {"discoverTables", "searchTable:click", "searchTable:keypress",
                         "ingestTableByName"}
        /\ IsBlank(last'.input))
       => /\ last'.sent = <<>>
          /\ inflight' = inflight
          /\ last'.alerts = <<"validation">>
          /\ disabled' = disabled]_vars

\* discover has been triggered with a URL of one space
C9_Witness ==
    /\ last.fn = "discoverTables"
    /\ last.phase = "call"
    /\ last.input = <<" ">>
    /\ last.alerts = <<"validation">>

(***************************************************************************)
(* C10.  The search after a successful ingest-single.                      *)
(***************************************************************************)
\* C10 (as claimed): the continuation of an ingest-single that handles
\* success:true issues a status fetch, a logs fetch and exactly one search
\* request, and that search request carries the table name of the search
\* request sent last before.
C10_RerunsLastSearch ==
    [][ResumedNext("ingestSingleTable", "ok") =>
          LET sent == last'.sent
              searches == {i \in 1..Len(sent) : sent[i].ep = "/api/search-table"}
          IN  /\ \E i \in 1..Len(sent) : sent[i] = StatusReq
              /\ \E i \in 1..Len(sent) : sent[i] = LogsReq
              /\ Cardinality(searches) = 1
              /\ \A i \in searches : sent[i].body = lastSearch.name]_vars

(***************************************************************************)
(* C11.  A refused command is shown to the user.                           *)
(***************************************************************************)
\* C11 (as claimed): every continuation of discover, start, pause, resume,
\* ingest-single or ingest-by-name that handles success:false raises an
\* alert carrying the backend's error.
C11_RefusalIsAlerted ==
    \A fn \in {"discoverTables", "startIngestion", "pauseIngestion", "resumeIngestion",
               "ingestSingleTable", "ingestTableByName"} :
        Resumed(fn, "fail") => last.alerts = <<"error">>

(***************************************************************************)
(* C12.  A failed poll is silent.                                          *)
(***************************************************************************)
\* C12: a step in which fetchStatus or fetchLogs ends in its catch (transport
\* failure or unparseable answer, whoever issued the request) raises no
\* alert and changes no button, no indicator, no counter, no log entry and
\* no search result.
C12_FailedFetchIsSilent ==
    [][(ResumedNext("fetchStatus", "throw") \/ ResumedNext("fetchLogs", "throw"))
          => /\ last'.alerts = <<>>
             /\ last'.sent = <<>>
             /\ UNCHANGED <<disabled, view, logContainer, searchResults>>]_vars

\* a logs fetch failed while entries and a status were on display
C12_Witness ==
    /\ Resumed("fetchLogs", "throw")
    /\ logContainer # <<>>
    /\ applied.any

(***************************************************************************)
(* C13.  The display converges on the backend's status.                    *)
(***************************************************************************)
\* the indicator and the pause, resume and start controls are the
\* reconciliation of a status
Reconciled(status) ==
    LET r == status.is_running
        p == status.is_paused
    IN  /\ view.dot = (IF r /\ ~p THEN "running" ELSE IF p THEN "paused" ELSE "idle")
        /\ (~disabled["pauseBtn"]) <=> (r /\ ~p)
        /\ (~disabled["resumeBtn"]) <=> p
        /\ (~disabled["startBtn"]) <=> (~r /\ PendingOf(status) > 0)

\* C13 (as claimed): once the backend's status has stopped changing, no
\* command is sent any more and status fetches succeed, then from the first
\* status response whose request was issued after that point on, the
\* indicator and the pause, resume and start controls are the reconciliation
\* of the backend's status, whatever responses are still to come.
C13_FirstFreshResponseSettles ==
    (backend.frozen /\ backend.fresh) => Reconciled(backend.status)

\* C13 (amended): the same from the first such status response that is
\* applied when no response to a request issued before that point, status
\* or command, is outstanding any more.
C13_SettledOnceDrained ==
    (backend.frozen /\ backend.settled) => Reconciled(backend.status)

\* the display has settled on a running backend and polling goes on
C13_Witness ==
    /\ backend.settled
    /\ backend.status.is_running
    /\ view.dot = "running"
    /\ last.fn = "statusTick"

(***************************************************************************)
(* C14.  Startup and the cadence of the timers.                            *)
(***************************************************************************)
\* C14: the step that handles DOMContentLoaded finds no timer and no request
\* outstanding, creates both timers and issues exactly one status fetch and
\* one logs fetch; no other step creates or changes a timer; a tick of the
\* status timer issues exactly one status fetch and a tick of the logs timer
\* exactly one logs fetch, and neither fires before the timers exist.
C14_StartupThenTicks ==
    [][/\ (last'.fn = "DOMContentLoaded") =>
             /\ statusInterval = Null /\ logsInterval = Null
             /\ statusInterval' # Null /\ logsInterval' # Null
             /\ inflight = EmptyBag
             /\ inflight' = SetToBag({StatusReq, LogsReq})
       /\ (last'.fn # "DOMContentLoaded") => UNCHANGED <<statusInterval, logsInterval>>
       /\ (last'.fn = "statusTick") =>
             /\ statusInterval # Null
             /\ inflight' = inflight (+) SetToBag({StatusReq})
       /\ (last'.fn = "logsTick") =>
             /\ logsInterval # Null
             /\ inflight' = inflight (+) SetToBag({LogsReq})]_vars

\* a tick of the status timer has issued a second status fetch while an
\* earlier one is outstanding
C14_Witness ==
    /\ last.fn = "statusTick"
    /\ CopiesIn(StatusReq, inflight) = 2

(***************************************************************************)
(* C15.  Stopping the poller.                                              *)
(***************************************************************************)
\* C15 (as claimed): once the timers run, the console has an operation that
\* stops them, that is a step after which neither timer is set, so that no
\* tick issues a request any more (StatusTick and LogsTick need their timer).
C15_PollerCanBeStopped ==
    (statusInterval # Null \/ logsInterval # Null)
        => ENABLED (Next /\ statusInterval' = Null /\ logsInterval' = Null)

(***************************************************************************)
(* C16.  No automatic retry.                                               *)
(***************************************************************************)
\* the handler a user trigger of each command runs
TriggerOf ==
    [ep \in CommandEndpoints |->
        CASE ep = "/api/discover" -> "discoverTables"
          [] ep = "/api/start" -> "startIngestion"
          [] ep = "/api/pause" -> "pauseIngestion"
          [] ep = "/api/resume" -> "resumeIngestion"
          [] ep = "/api/retry-failed" -> "retryFailed"
          [] ep = "/api/reset" -> "resetAll"
          [] ep = "/api/ingest-single" -> "ingestSingleTable"
          [] ep = "/api/ingest-by-name" -> "ingestTableByName"]

\* C16: a request to a command's endpoint is issued only by the handler a
\* user trigger of that command runs, up to its await, and one trigger issues
\* one request and nothing else; no continuation, whether it handles success,
\* success:false or a transport failure, issues a request to the endpoint of
\* any command, and no step adds a request to the outstanding ones that the
\* handler did not issue.
C16_OneRequestPerTrigger ==
    [][/\ \A i \in DOMAIN last'.sent :
             last'.sent[i].ep \in CommandEndpoints =>
                /\ last'.phase = "call"
                /\ last'.fn = TriggerOf[last'.sent[i].ep]
                /\ Len(last'.sent) = 1
       /\ \A r \in BagToSet(inflight') :
             (r.ep \in CommandEndpoints /\ CopiesIn(r, inflight') > CopiesIn(r, inflight)) =>
                /\ last'.sent = <<r>>
                /\ CopiesIn(r, inflight') = CopiesIn(r, inflight) + 1]_vars

\* a start has failed in transport and has been handled: no start request
\* is outstanding
C16_Witness ==
    /\ Resumed("startIngestion", "throw")
    /\ InFlightTo("/api/start") = 0
    /\ last.sent = <<>>

(***************************************************************************)
(* C17, C18.  Single flight of start and of the table search.              *)
(***************************************************************************)
\* C17 (as claimed): while a start request is outstanding the start button
\* is disabled, whatever status responses are applied meanwhile, and no
\* second start request is outstanding.
C17_StartStaysDisabledInFlight ==
    InFlightTo("/api/start") > 0 =>
        /\ disabled["startBtn"]
        /\ InFlightTo("/api/start") = 1

\* C18 (as claimed): at most one search-table request is outstanding, and
\* the search button is disabled while one is, whether the search came from
\* a click, from the Enter key or from the re-run after an ingest-single.
C18_SearchSingleFlight ==
    /\ InFlightTo("/api/search-table") <= 1
    /\ InFlightTo("/api/search-table") > 0 => disabled["searchTableBtn"]

(***************************************************************************)
(* C19, C20.  The buttons between status responses.                        *)
(***************************************************************************)
\* the pause and the resume button are both enabled
BothEnabled == ~disabled["pauseBtn"] /\ ~disabled["resumeBtn"]

\* a step applies a status response or the optimistic update of a start, a
\* pause or a resume that succeeded
UpdatesButtonsNext ==
    \/ ResumedNext("fetchStatus", "ok")
    \/ \E fn \in {"startIngestion", "pauseIngestion", "resumeIngestion"} : ResumedNext(fn, "ok")

\* C19: every step that applies a status response or an optimistic update
\* leaves pause and resume not both enabled, and no step enables both when
\* they were not; so from the first such update on they never are.
C19_NeverBothPauseAndResume ==
    [][/\ UpdatesButtonsNext => ~BothEnabled'
       /\ ~BothEnabled => ~BothEnabled']_vars

\* the first update of the buttons was the optimistic update of a pause,
\* before any status response
C19_Witness ==
    /\ Resumed("pauseIngestion", "ok")
    /\ ~applied.any
    /\ ~disabled["resumeBtn"] /\ disabled["pauseBtn"]

\* the start button is enabled although the status applied last forbids a
\* start: something runs, or nothing is pending
StartAgainstStatus ==
    /\ applied.any
    /\ ~disabled["startBtn"]
    /\ applied.data.is_running \/ PendingOf(applied.data) = 0

====
